---- MODULE Spec2Model ----
(***************************************************************************)
(* Model of finalWork/final.py: the high-altitude ascent survival          *)
(* simulator (a Streamlit script).  One script run is one step: the        *)
(* sidebar handles at most one widget event, then the body of the current  *)
(* page is executed, unless the handler ends the run with st.rerun().      *)
(*                                                                         *)
(* Units (Python floats become fixed-point integers):                      *)
(*   wall-clock time        0.1 s            (time.time())                 *)
(*   simulated elapsed time 0.1 s            (wall time x speed)           *)
(*   height                 0.00001 m        (0.3048 m/s = 3048 per 0.1 s) *)
(*   temperature            0.001 degree C                                 *)
(*   pressure, oxygen_pp    0.000001 atm                                   *)
(*   blood oxygen           0.001 percent                                  *)
(***************************************************************************)
EXTENDS Integers, Sequences, FiniteSets, TLC

VARIABLES
  now,                  \* time.time(): the wall clock read by a script run
  advances,             \* clock advances still to be observed
  samples,              \* history records appended at the current clock reading
  simulation_running,   \* st.session_state.simulation_running
  current_height,       \* st.session_state.current_height
  start_time,           \* st.session_state.start_time
  real_start_time,      \* st.session_state.real_start_time
  history,              \* st.session_state.history
  death_reason,         \* st.session_state.death_reason
  death_time,           \* st.session_state.death_time
  simulation_speed,     \* st.session_state.simulation_speed
  current_page,         \* st.session_state.current_page
  conversation,         \* <persona>_conversation, per persona
  initialized,          \* <persona>_initialized, per persona
  auto_messages_shown,  \* <persona>_auto_messages_shown, per persona
  appended,             \* every record appended to history since the last reset
  probe                 \* inputs and result of a function evaluated on its own

sim == <<simulation_running, current_height, start_time, real_start_time,
         history, death_reason, death_time, simulation_speed>>
chat == <<conversation, initialized, auto_messages_shown>>
vars == <<now, advances, samples, sim, current_page, chat, appended, probe>>

None == "None"          \* None where the value is otherwise a string
NoneTime == 0 - 1       \* None where the value is otherwise a time

(***************************************************************************)
(* Fixed-point helpers (scale 10^6, products kept below 2^31).             *)
(***************************************************************************)
Max2(a, b) == IF a >= b THEN a ELSE b

\* floor(a*b / 10^6) for 0 <= a, b < 10^7, without overflowing 32 bits
MulS(a, b) ==
  LET ah == a \div 1000
      al == a % 1000
      bh == b \div 1000
      bl == b % 1000
  IN ah * bh + ((ah * bl + al * bh + ((al * bl) \div 1000)) \div 1000)

\* -ln(1 - x) = x + x^2/2 + x^3/3 + ...   (x scaled, 0 <= x <= 0.5)
LnSeries(x, pw, n) ==
  LET series[a \in Nat \X Nat] ==        \* a = <<power of x, index of the term>>
        IF a[1] = 0 \/ a[2] > 40 THEN 0
        ELSE (a[1] \div a[2]) + series[<<MulS(a[1], x), a[2] + 1>>]
  IN series[<<pw, n>>]

NegLn1m(x) == LnSeries(x, x, 1)

\* exp(-y) = 1 - y + y^2/2! - ...   (y scaled, 0 <= y <= 3)
ExpSeries(y, term, n, sign) ==
  LET series[a \in Nat \X Nat \X Int] ==  \* a = <<term, index of the term, sign>>
        IF a[1] = 0 \/ a[2] > 40 THEN 0
        ELSE a[3] * a[1]
             + series[<<MulS(a[1], y) \div (a[2] + 1), a[2] + 1, 0 - a[3]>>]
  IN series[<<term, n, sign>>]

ExpNeg(y) == ExpSeries(y, 1000000, 0, 1)

(***************************************************************************)
(* Physical model                                                          *)
(***************************************************************************)
Metres(m) == m * 100000         \* metres to height units

\* calculate_temperature: 15.0 - (h/1000)*6.5 | -56.5 | -56.5 + (h-20000)/1000
calculate_temperature(height_m) ==
  LET cm == height_m \div 1000
  IN IF height_m < Metres(11000) THEN 15000 - ((cm * 65) \div 1000)
     ELSE IF height_m < Metres(20000) THEN 0 - 56500
     ELSE (0 - 56500) + ((cm - 2000000) \div 100)

\* g*M/(R*L), and g*M/(R*216.65) per centimetre, both scaled by 10^6
BaroExponent == 5255781
StratoDecay == 1576856

\* (1 - L*h/T0) ^ (g*M/(R*L)), as exp(exponent * ln(base))
Troposphere(cm) ==
  LET x == (cm * 1300) \div 5763      \* L*h/T0 = 0.0065*h/288.15, scaled
  IN ExpNeg(MulS(BaroExponent, NegLn1m(x)))

\* g*M*h_above/(R*216.65), scaled by 10^6, above which the double that
\* P_tropopause * math.exp(...) / 101325 yields is 0.0
ExpUnderflow == 743523781

\* exp(-y) for every y >= 0, by exp(-y) = exp(-3) * exp(-(y - 3)); below the
\* resolution of the scale from y = 21 on
RECURSIVE ExpDecay(_)
ExpDecay(y) ==
  IF y <= 3000000 THEN ExpNeg(y)
  ELSE IF y > 21000000 THEN 0
  ELSE MulS(ExpNeg(3000000), ExpDecay(y - 3000000))

\* P_tropopause * exp(-g*M*h_above/(R*216.65)); a positive double below the
\* resolution of the scale is kept positive (one unit), the double 0.0 is 0
Stratosphere(cm) ==
  LET P_tropopause == Troposphere(1100000)
      h_above == cm - 1100000                 \* cm above 11 km
      y == MulS(StratoDecay, h_above)        \* g*M*h_above/(R*216.65)
  IN IF y > ExpUnderflow THEN 0
     ELSE Max2(1, MulS(P_tropopause, ExpDecay(y)))

\* calculate_pressure of a height in centimetres
PressureAt(cm) == IF cm < 1100000 THEN Troposphere(cm) ELSE Stratosphere(cm)

\* calculate_pressure, result in atm (pressure / 101325)
calculate_pressure(height_m) == PressureAt(height_m \div 1000)

\* calculate_oxygen_partial_pressure without the fraction: pressure_atm * 21
calculate_oxygen_partial_pressure_Percent(pressure_atm) == pressure_atm * 21

\* calculate_oxygen_partial_pressure: pressure_atm * 0.21
calculate_oxygen_partial_pressure(pressure_atm) == (pressure_atm * 21) \div 100

\* calculate_blood_oxygen_saturation with the middle piece starting at 65
calculate_blood_oxygen_saturation_LowAnchor(oxygen_pp) ==
  IF oxygen_pp >= 210000 THEN 98000
  ELSE IF oxygen_pp >= 100000
       THEN 65000 + (((oxygen_pp - 100000) * 33) \div 110)
       ELSE Max2(50000, 70000 - ((100000 - oxygen_pp) \div 5))

\* calculate_blood_oxygen_saturation without the floor of 50
calculate_blood_oxygen_saturation_NoFloor(oxygen_pp) ==
  IF oxygen_pp >= 210000 THEN 98000
  ELSE IF oxygen_pp >= 100000
       THEN 70000 + (((oxygen_pp - 100000) * 28) \div 110)
       ELSE 70000 - ((100000 - oxygen_pp) \div 5)

\* calculate_blood_oxygen_saturation
calculate_blood_oxygen_saturation(oxygen_pp) ==
  IF oxygen_pp >= 210000 THEN 98000
  ELSE IF oxygen_pp >= 100000
       THEN 70000 + (((oxygen_pp - 100000) * 28) \div 110)
       ELSE Max2(50000, 70000 - ((100000 - oxygen_pp) \div 5))

\* CoolingFactor with the sign of the rate the other way round
CoolingFactor_Warming(env_temp) ==
  IF env_temp > 10000 THEN 0 - 15
  ELSE IF env_temp > 0 THEN 0 - 40
  ELSE IF env_temp > 0 - 20000 THEN 0 - 100
  ELSE 0 - 200

\* cooling rate per hour as a multiple of temp_diff/27, in hundredths
CoolingFactor(env_temp) ==
  IF env_temp > 10000 THEN 15
  ELSE IF env_temp > 0 THEN 40
  ELSE IF env_temp > 0 - 20000 THEN 100
  ELSE 200

\* min_body_temp with the floor of the band below 0 in the bands above 0
min_body_temp_ColdBand(env_temp) ==
  IF env_temp > 0 - 20000 THEN Max2(25000, env_temp + 15000)
  ELSE Max2(20000, env_temp + 12000)

\* min_body_temp without the fixed floors: the band offsets only
min_body_temp_OffsetOnly(env_temp) ==
  IF env_temp > 10000 THEN 32000
  ELSE IF env_temp > 0 THEN 30000
  ELSE IF env_temp > 0 - 20000 THEN env_temp + 15000
  ELSE env_temp + 12000

min_body_temp(env_temp) ==
  IF env_temp > 10000 THEN 32000
  ELSE IF env_temp > 0 THEN 30000
  ELSE IF env_temp > 0 - 20000 THEN Max2(25000, env_temp + 15000)
  ELSE Max2(20000, env_temp + 12000)

initial_temp == 37000

\* calculate_body_temperature(env_temp, time_elapsed, initial_temp=37.0)
calculate_body_temperature(env_temp, time_elapsed) ==
  IF env_temp >= initial_temp THEN initial_temp
  ELSE LET temp_diff == initial_temp - env_temp
           cooling_rate_per_hour == (CoolingFactor(env_temp) * temp_diff) \div 2700
           hours == time_elapsed \div 36000
           rest == time_elapsed % 36000
           body_temp == initial_temp - (cooling_rate_per_hour * hours
                                        + ((cooling_rate_per_hour * rest) \div 36000))
       IN Max2(min_body_temp(env_temp), body_temp)

(***************************************************************************)
(* Death evaluator.  The causes are the strings of the source:             *)
(* "Asphyxiation" stands for the suffocation cause and "Hypothermia" for   *)
(* the freezing cause.                                                     *)
(***************************************************************************)
\* AsphyxiationCondition without the blood oxygen test
AsphyxiationCondition_OxygenOnly(oxygen_pp, blood_oxygen) == oxygen_pp < 100000

AsphyxiationCondition(oxygen_pp, blood_oxygen) ==
  oxygen_pp < 100000 \/ blood_oxygen < 70000

HypothermiaCondition(body_temp) == body_temp < 28000

\* PrimaryReason with the priority the other way round
PrimaryReason_HypothermiaFirst(death_reasons) ==
  IF "Hypothermia" \in death_reasons THEN "Hypothermia" ELSE "Asphyxiation"

\* the cause reported when the list of causes is not empty
PrimaryReason(death_reasons) ==
  IF "Asphyxiation" \in death_reasons THEN "Asphyxiation" ELSE "Hypothermia"

\* returns (is_dead, primary_reason, details); details by its keys
check_death_conditions(height_m, temp, oxygen_pp, body_temp, blood_oxygen, time_elapsed) ==
  LET death_reasons ==
        (IF AsphyxiationCondition(oxygen_pp, blood_oxygen) THEN {"Asphyxiation"} ELSE {})
        \cup (IF HypothermiaCondition(body_temp) THEN {"Hypothermia"} ELSE {})
      is_dead == Cardinality(death_reasons) > 0
  IN [is_dead |-> is_dead,
      primary_reason |-> IF is_dead THEN PrimaryReason(death_reasons) ELSE None,
      details |-> death_reasons]

(***************************************************************************)
(* Session state and the sidebar                                           *)
(***************************************************************************)
Personas == {"moss", "undertaker", "future_self"}
Pages == {"simulator"} \cup Personas    \* a chat page is named by its persona

\* Python truthiness of start_time and of death_reason
TruthyTime(t) == t # NoneTime /\ t # 0
TruthyReason(r) == r # None /\ r # ""

HistoryCap == 1000

Epoch == 1                \* clock reading when the session starts
MaxElapse == 2            \* clock advances observed in a run of the model
MaxSamples == 1           \* history records appended per clock reading
MaxChatPages == 1         \* chat pages opened between two resets
MaxMessages == 1          \* messages the user sends in one conversation
MaxTicks == 70            \* automatic refreshes of an uninterrupted run
Strides == {1700}         \* clock advances, in 0.1 s
SliderInputs == {49, 50, 100, 151}
TickSpeeds == {50, 100, 150}    \* speeds chosen before the start

SessionInit ==
  /\ simulation_running = FALSE
  /\ current_height = 0
  /\ start_time = NoneTime
  /\ history = <<>>
  /\ death_reason = None
  /\ simulation_speed = 100
  /\ death_time = NoneTime
  /\ real_start_time = NoneTime
  /\ current_page = "simulator"
  /\ conversation = [p \in Personas |-> <<>>]
  /\ initialized = [p \in Personas |-> FALSE]
  /\ auto_messages_shown = [p \in Personas |-> <<>>]

Init ==
  /\ SessionInit
  /\ now = Epoch
  /\ advances = MaxElapse
  /\ samples = 0
  /\ appended = <<>>
  /\ probe = [fn |-> "none"]

\* the clock moves on between two script runs
Elapse ==
  /\ advances > 0
  /\ \E d \in Strides : now' = now + d
  /\ advances' = advances - 1
  /\ samples' = 0
  /\ UNCHANGED <<sim, current_page, chat, appended, probe>>

\* is_disabled without the test of death_reason
is_disabled_RunningOnly(running, reason) == running

\* the start button is disabled while running or after death
is_disabled(running, reason) == running \/ reason # None

is_stop_disabled(running) == ~running

\* SliderAccepts without max_value
SliderAccepts_NoMax(v) == 50 <= v

\* the slider only yields values between min_value and max_value
SliderAccepts(v) == 50 <= v /\ v <= 150

\* the value the slider shows when it is not moved
current_speed(speed) == IF speed < 50 \/ speed > 150 THEN 100 ELSE speed

Start ==
  /\ ~is_disabled(simulation_running, death_reason)
  /\ simulation_running' = TRUE
  /\ start_time' = now
  /\ real_start_time' = now
  /\ death_reason' = None
  /\ death_time' = NoneTime
  /\ UNCHANGED <<now, advances, samples, current_height, history, simulation_speed,
                 current_page, chat, appended, probe>>

Pause ==
  /\ ~is_stop_disabled(simulation_running)
  /\ simulation_running' = FALSE
  /\ UNCHANGED <<now, advances, samples, current_height, start_time, real_start_time,
                 history, death_reason, death_time, simulation_speed,
                 current_page, chat, appended, probe>>

\* Reset without the clearing of the personas' conversations
Reset_KeepChat ==
  /\ simulation_running' = FALSE
  /\ current_height' = 0
  /\ start_time' = NoneTime
  /\ real_start_time' = NoneTime
  /\ history' = <<>>
  /\ death_reason' = None
  /\ death_time' = NoneTime
  /\ simulation_speed' = simulation_speed
  /\ appended' = <<>>
  /\ UNCHANGED <<now, advances, samples, current_page, chat, probe>>

Reset ==
  /\ simulation_running' = FALSE
  /\ current_height' = 0
  /\ start_time' = NoneTime
  /\ real_start_time' = NoneTime
  /\ history' = <<>>
  /\ death_reason' = None
  /\ death_time' = NoneTime
  /\ conversation' = [p \in Personas |-> <<>>]
  /\ initialized' = [p \in Personas |-> FALSE]
  /\ auto_messages_shown' = [p \in Personas |-> <<>>]
  /\ simulation_speed' = current_speed(simulation_speed)
  /\ appended' = <<>>
  /\ UNCHANGED <<now, advances, samples, current_page, probe>>

(***************************************************************************)
(* Page bodies.  spd is simulation_speed as the sidebar leaves it.         *)
(***************************************************************************)
\* the values derived from a height and an elapsed time, as one record
Sample(height_m, elapsed_time) ==
  LET env_temp == calculate_temperature(height_m)
      pressure_atm == calculate_pressure(height_m)
      oxygen_pp == calculate_oxygen_partial_pressure(pressure_atm)
  IN [time |-> elapsed_time,
      height |-> height_m,
      env_temp |-> env_temp,
      body_temp |-> calculate_body_temperature(env_temp, elapsed_time),
      pressure |-> pressure_atm,
      oxygen_pp |-> oxygen_pp,
      blood_oxygen |-> calculate_blood_oxygen_saturation(oxygen_pp)]

\* Ticking without the test of simulation_running
Ticking_Always == TruthyTime(start_time)

\* the clock drives the height only while running from a start time
Ticking == simulation_running /\ TruthyTime(start_time)

ElapsedTime(spd) == IF Ticking THEN (now - start_time) * spd ELSE 0

\* HeightOf without the conversion from feet to metres
HeightOf_Feet(elapsed_time) == elapsed_time * 10000

\* 0.3048 m per simulated second
HeightOf(elapsed_time) == elapsed_time * 3048

\* ShouldLatch with the test of the stored cause the other way round
ShouldLatch_Inverted(is_dead, reason) == is_dead /\ TruthyReason(reason)

\* death is recorded once
ShouldLatch(is_dead, reason) == is_dead /\ ~TruthyReason(reason)

\* LastRecords without the cut
LastRecords_All(h) == h

\* LastRecords keeping the oldest records: history[:1000]
LastRecords_Oldest(h) ==
  IF Len(h) > 1000 THEN SubSeq(h, 1, 1000) ELSE h

\* history[-1000:]
LastRecords(h) ==
  IF Len(h) > HistoryCap THEN SubSeq(h, Len(h) - HistoryCap + 1, Len(h)) ELSE h

SimulatorPage(spd) ==
  LET elapsed_time == ElapsedTime(spd)
      height_m == IF Ticking THEN HeightOf(elapsed_time) ELSE current_height
  IN \* the derived values and the verdict are computed once in a run
     \E s \in {Sample(height_m, elapsed_time)} :
     \E verdict \in {check_death_conditions(height_m, s.env_temp, s.oxygen_pp,
                                            s.body_temp, s.blood_oxygen, elapsed_time)} :
       LET latch == ShouldLatch(verdict.is_dead, death_reason)
           reason == IF latch THEN verdict.primary_reason ELSE death_reason
           running == IF latch \/ TruthyReason(reason) THEN FALSE ELSE simulation_running
           record == running /\ ~TruthyReason(reason)
       IN /\ record => samples < MaxSamples
          /\ current_height' = height_m
          /\ death_reason' = reason
          /\ simulation_running' = running
          /\ death_time' = IF latch /\ real_start_time # NoneTime
                           THEN now - real_start_time ELSE death_time
          /\ history' = IF record THEN LastRecords(Append(history, s)) ELSE history
          /\ appended' = IF record THEN Append(appended, s) ELSE appended
          /\ samples' = IF record THEN samples + 1 ELSE samples
          /\ simulation_speed' = spd
          /\ UNCHANGED <<start_time, real_start_time, chat>>

\* get_auto_message_at_height: the key of the message of a height, or None
get_auto_message_at_height(height_m) ==
  IF 0 <= height_m /\ height_m < Metres(200) THEN "0km"
  ELSE IF Metres(1800) <= height_m /\ height_m < Metres(2200) THEN "2km"
  ELSE IF Metres(4300) <= height_m /\ height_m < Metres(4700) THEN "4.5km"
  ELSE None

InSeq(x, q) == \E i \in 1..Len(q) : q[i] = x

SystemMessage == [role |-> "system", key |-> "prompt"]
AutoMessage(k) == [role |-> "assistant", key |-> k]

\* the message a chat page adds in one run: in range first, then the back-fill
AutoKey(height_m, shown) ==
  LET k == get_auto_message_at_height(height_m)
  IN IF k # None /\ ~InSeq(k, shown) THEN k
     ELSE IF height_m >= Metres(2200) /\ ~InSeq("2km", shown)
          THEN get_auto_message_at_height(Metres(2000))
     ELSE IF height_m >= Metres(4700) /\ ~InSeq("4.5km", shown)
          THEN get_auto_message_at_height(Metres(4500))
     ELSE None

ChatPage(p, spd) ==
  LET elapsed_time == ElapsedTime(spd)
      height_m == IF Ticking THEN HeightOf(elapsed_time) ELSE current_height
      conv == IF Len(conversation[p]) = 0 THEN <<SystemMessage>> ELSE conversation[p]
      k == AutoKey(height_m, auto_messages_shown[p])
  IN /\ current_height' = height_m
     /\ initialized' = IF Len(conversation[p]) = 0
                       THEN [initialized EXCEPT ![p] = TRUE] ELSE initialized
     /\ conversation' = [conversation EXCEPT
                           ![p] = IF k # None THEN Append(conv, AutoMessage(k)) ELSE conv]
     /\ auto_messages_shown' = IF k # None
                               THEN [auto_messages_shown EXCEPT ![p] = Append(@, k)]
                               ELSE auto_messages_shown
     /\ simulation_speed' = spd
     /\ UNCHANGED <<simulation_running, start_time, real_start_time, history,
                    death_reason, death_time, appended, samples>>

UserMessage == [role |-> "user", key |-> "input"]
AssistantReply == [role |-> "assistant", key |-> "reply"]

\* call_zhipu_api returns the reply or raises
ApiOutcomes == {"reply", "error"}

\* ReplyOf with the error reported as a message of the assistant
ReplyOf_ErrorAsMessage(outcome) ==
  IF outcome = "reply" THEN <<AssistantReply>>
  ELSE <<[role |-> "assistant", key |-> "error"]>>

\* try / except around the call: what is appended after the user's message
ReplyOf(outcome) == IF outcome = "reply" THEN <<AssistantReply>> ELSE <<>>

UserMessages(conv) == Cardinality({i \in 1..Len(conv) : conv[i].role = "user"})

\* a chat page run that reaches the chat input, the user having sent a message
SendMessage(outcome) ==
  LET p == current_page
      spd == current_speed(simulation_speed)
      elapsed_time == ElapsedTime(spd)
      height_m == IF Ticking THEN HeightOf(elapsed_time) ELSE current_height
      filled == IF p \in Personas THEN conversation[p] ELSE <<>>
      conv == IF Len(filled) = 0 THEN <<SystemMessage>> ELSE filled
  IN /\ p \in Personas
     /\ AutoKey(height_m, auto_messages_shown[p]) = None
     /\ UserMessages(conv) < MaxMessages
     /\ current_height' = height_m
     /\ initialized' = IF Len(filled) = 0
                       THEN [initialized EXCEPT ![p] = TRUE] ELSE initialized
     /\ conversation' = [conversation EXCEPT
                           ![p] = Append(conv, UserMessage) \o ReplyOf(outcome)]
     /\ simulation_speed' = spd
     /\ UNCHANGED <<now, advances, samples, simulation_running, start_time,
                    real_start_time, history, death_reason, death_time,
                    current_page, auto_messages_shown, appended, probe>>

PageBody(page, spd) ==
  IF page = "simulator" THEN SimulatorPage(spd) ELSE ChatPage(page, spd)

\* a run without a widget event: the automatic refresh, or the run after st.rerun()
Refresh ==
  /\ PageBody(current_page, current_speed(simulation_speed))
  /\ UNCHANGED <<now, advances, current_page, probe>>

\* the slider is moved
SetSpeed(v) ==
  /\ SliderAccepts(v)
  /\ v # simulation_speed
  /\ PageBody(current_page, v)
  /\ UNCHANGED <<now, advances, current_page, probe>>

\* another page is chosen in the navigation
SelectPage(page) ==
  /\ page # current_page
  /\ page \in Personas =>
       \/ initialized[page]
       \/ Cardinality({q \in Personas : initialized[q]}) < MaxChatPages
  /\ current_page' = page
  /\ PageBody(page, current_speed(simulation_speed))
  /\ UNCHANGED <<now, advances, probe>>

Next ==
  \/ Elapse
  \/ Start
  \/ Pause
  \/ Reset
  \/ Refresh
  \/ \E v \in SliderInputs : SetSpeed(v)
  \/ \E page \in Pages : SelectPage(page)

Spec == Init /\ [][Next]_vars

(***************************************************************************)
(* A session that is already long: started at speed 50 on the simulator    *)
(* page and refreshed every 0.1 s, so that the history is about to reach   *)
(* its cap.  Every record is the sample of its tick.                       *)
(***************************************************************************)
LongRun(n) == [i \in 1..n |-> Sample(HeightOf(i * 50), i * 50)]

InitHistory ==
  \E n \in {HistoryCap - 1, HistoryCap} :
    /\ simulation_running = TRUE
    /\ current_height = HeightOf(n * 50)
    /\ start_time = Epoch
    /\ real_start_time = Epoch
    /\ history = LongRun(n)
    /\ appended = LongRun(n)
    /\ death_reason = None
    /\ death_time = NoneTime
    /\ simulation_speed = 50
    /\ current_page = "simulator"
    /\ conversation = [p \in Personas |-> <<>>]
    /\ initialized = [p \in Personas |-> FALSE]
    /\ auto_messages_shown = [p \in Personas |-> <<>>]
    /\ now = Epoch + n
    /\ advances = MaxElapse - 1
    /\ samples = 1
    /\ probe = [fn |-> "none"]

SpecHistory == InitHistory /\ [][Next]_vars

(***************************************************************************)
(* The session with the chat input: the user also sends messages on the    *)
(* chat pages.  A message changes the conversation only, and the run that  *)
(* handles it ticks as every run of a chat page does.                      *)
(***************************************************************************)
InitChat ==
  /\ SessionInit
  /\ now = Epoch
  /\ advances = MaxElapse - 1
  /\ samples = 0
  /\ appended = <<>>
  /\ probe = [fn |-> "none"]

NextChat ==
  \/ Next
  \/ \E outcome \in ApiOutcomes : SendMessage(outcome)

SpecChat == InitChat /\ [][NextChat]_vars

(***************************************************************************)
(* The session with the calls of the death evaluator made visible: a run   *)
(* of the simulator page calls check_death_conditions, whether or not a    *)
(* cause of death is already stored; the chat pages never call it.  The    *)
(* probe keeps the last call and whether a cause was stored when the run   *)
(* began.                                                                  *)
(***************************************************************************)
Consulted(page) ==
  IF page = "simulator"
  THEN [fn |-> "check_death_conditions", latched |-> TruthyReason(death_reason)]
  ELSE probe

RefreshObserved ==
  /\ PageBody(current_page, current_speed(simulation_speed))
  /\ probe' = Consulted(current_page)
  /\ UNCHANGED <<now, advances, current_page>>

SetSpeedObserved(v) ==
  /\ SliderAccepts(v)
  /\ v # simulation_speed
  /\ PageBody(current_page, v)
  /\ probe' = Consulted(current_page)
  /\ UNCHANGED <<now, advances, current_page>>

SelectPageObserved(page) ==
  /\ page # current_page
  /\ page \in Personas =>
       \/ initialized[page]
       \/ Cardinality({q \in Personas : initialized[q]}) < MaxChatPages
  /\ current_page' = page
  /\ PageBody(page, current_speed(simulation_speed))
  /\ probe' = Consulted(page)
  /\ UNCHANGED <<now, advances>>

NextObserved ==
  \/ Elapse
  \/ Start
  \/ Pause
  \/ Reset
  \/ RefreshObserved
  \/ \E v \in SliderInputs : SetSpeedObserved(v)
  \/ \E page \in Pages : SelectPageObserved(page)

SpecObserved == InitChat /\ [][NextObserved]_vars

(***************************************************************************)
(* The uninterrupted run: the start button has just been pressed on the    *)
(* simulator page, at a speed chosen before, and from then on the page     *)
(* only refreshes itself (time.sleep, st.rerun) while the clock advances:  *)
(* no pause, no reset, no other page.  The clock advances once the page    *)
(* has ticked at the current reading, so no reading is skipped; the        *)
(* refreshes in between are taken together in steps of 5 s.  The loop      *)
(* keeps going as long as it is enabled (weak fairness).                   *)
(***************************************************************************)
RefreshStrides == {50}

InitAscent ==
  \E s \in TickSpeeds :
    /\ simulation_running = TRUE
    /\ current_height = 0
    /\ start_time = Epoch
    /\ real_start_time = Epoch
    /\ history = <<>>
    /\ appended = <<>>
    /\ death_reason = None
    /\ death_time = NoneTime
    /\ simulation_speed = s
    /\ current_page = "simulator"
    /\ conversation = [p \in Personas |-> <<>>]
    /\ initialized = [p \in Personas |-> FALSE]
    /\ auto_messages_shown = [p \in Personas |-> <<>>]
    /\ now = Epoch
    /\ advances = MaxTicks
    /\ samples = 0
    /\ probe = [fn |-> "none"]

\* the clock moves on after the page has ticked
Sleep ==
  /\ advances > 0
  /\ samples > 0
  /\ \E d \in RefreshStrides : now' = now + d
  /\ advances' = advances - 1
  /\ samples' = 0
  /\ UNCHANGED <<sim, current_page, chat, appended, probe>>

NextAscent ==
  \/ Sleep
  \/ Refresh

SpecAscent ==
  InitAscent /\ [][NextAscent]_vars /\ WF_vars(Sleep) /\ WF_vars(Refresh)

(***************************************************************************)
(* A session one second after its start: the speed was chosen on the       *)
(* simulator page, the start button was pressed at Epoch, and no page has  *)
(* been rendered since.                                                    *)
(***************************************************************************)
InitTick ==
  \E s \in TickSpeeds :
    /\ simulation_running = TRUE
    /\ current_height = 0
    /\ start_time = Epoch
    /\ real_start_time = Epoch
    /\ history = <<>>
    /\ appended = <<>>
    /\ death_reason = None
    /\ death_time = NoneTime
    /\ simulation_speed = s
    /\ current_page = "simulator"
    /\ conversation = [p \in Personas |-> <<>>]
    /\ initialized = [p \in Personas |-> FALSE]
    /\ auto_messages_shown = [p \in Personas |-> <<>>]
    /\ now = Epoch + 10
    /\ advances = MaxElapse - 1
    /\ samples = 0
    /\ probe = [fn |-> "none"]

SpecTick == InitTick /\ [][Next]_vars

(***************************************************************************)
(* The death evaluator on its own, over inputs around its thresholds.      *)
(***************************************************************************)
OxygenInputs == {90000, 99999, 100000, 150000, 210000}
BloodInputs == {50000, 60000, 69999, 70000, 90000}
BodyInputs == {20000, 27000, 27999, 28000, 37000}

InitVerdict ==
  /\ SessionInit
  /\ now = Epoch
  /\ advances = 0
  /\ samples = 0
  /\ appended = <<>>
  /\ \E o \in OxygenInputs, b \in BloodInputs, t \in BodyInputs :
       probe = [fn |-> "input", oxygen_pp |-> o, blood_oxygen |-> b, body_temp |-> t]

Evaluate ==
  /\ probe.fn = "input"
  /\ probe' = [fn |-> "check_death_conditions",
               oxygen_pp |-> probe.oxygen_pp,
               blood_oxygen |-> probe.blood_oxygen,
               body_temp |-> probe.body_temp,
               verdict |-> check_death_conditions(0, 0, probe.oxygen_pp, probe.body_temp,
                                                  probe.blood_oxygen, 0)]
  /\ UNCHANGED <<now, advances, samples, sim, current_page, chat, appended>>

NextVerdict == Evaluate

SpecVerdict == InitVerdict /\ [][NextVerdict]_vars

(***************************************************************************)
(* The physical functions on their own.  A probe holds the arguments, then *)
(* the arguments and the results.  Heights are in centimetres here, so     *)
(* that heights far above the ascent can be given.                         *)
(***************************************************************************)
EnvInputs == {0 - 60000, 0 - 56500, 0 - 20001, 0 - 20000, 0 - 19999, 0 - 1, 0, 1,
              10000, 10001, 36999, 37000, 40000}
TimeInputs == {0, 1, 36000, 100000, 161820, 500000, 2000000}
SaturationInputs == {0 - 100000, 0, 1, 50000, 99999, 100000, 100001, 150000,
                     209999, 210000, 210001, 300000, 1000000}
HeightInputs == {0, 100, 500000, 1099999, 1100000, 1100001, 2000000, 8900000,
                 10000000, 100000000, 472000000, 473000000}

PhysicsInputs ==
  {[fn |-> "arguments", of |-> "calculate_body_temperature",
    env_temp |-> e, t1 |-> a, t2 |-> b] :
     e \in EnvInputs, a \in TimeInputs, b \in TimeInputs}
  \cup {[fn |-> "arguments", of |-> "calculate_blood_oxygen_saturation",
          o1 |-> a, o2 |-> b] : a \in SaturationInputs, b \in SaturationInputs}
  \cup {[fn |-> "arguments", of |-> "calculate_pressure",
          h1 |-> a, h2 |-> b] : a \in HeightInputs, b \in HeightInputs}
  \cup {[fn |-> "arguments", of |-> "calculate_oxygen_partial_pressure",
          h |-> a] : a \in HeightInputs}

InitPhysics ==
  /\ SessionInit
  /\ now = Epoch
  /\ advances = 0
  /\ samples = 0
  /\ appended = <<>>
  /\ probe \in PhysicsInputs

EvalBodyTemperature ==
  /\ probe.fn = "arguments" /\ probe.of = "calculate_body_temperature"
  /\ probe' = [fn |-> "calculate_body_temperature",
               env_temp |-> probe.env_temp, t1 |-> probe.t1, t2 |-> probe.t2,
               r1 |-> calculate_body_temperature(probe.env_temp, probe.t1),
               r2 |-> calculate_body_temperature(probe.env_temp, probe.t2)]
  /\ UNCHANGED <<now, advances, samples, sim, current_page, chat, appended>>

EvalBloodOxygen ==
  /\ probe.fn = "arguments" /\ probe.of = "calculate_blood_oxygen_saturation"
  /\ probe' = [fn |-> "calculate_blood_oxygen_saturation",
               o1 |-> probe.o1, o2 |-> probe.o2,
               r1 |-> calculate_blood_oxygen_saturation(probe.o1),
               r2 |-> calculate_blood_oxygen_saturation(probe.o2)]
  /\ UNCHANGED <<now, advances, samples, sim, current_page, chat, appended>>

EvalPressure ==
  /\ probe.fn = "arguments" /\ probe.of = "calculate_pressure"
  /\ probe' = [fn |-> "calculate_pressure",
               h1 |-> probe.h1, h2 |-> probe.h2,
               p1 |-> PressureAt(probe.h1),
               p2 |-> PressureAt(probe.h2)]
  /\ UNCHANGED <<now, advances, samples, sim, current_page, chat, appended>>

EvalOxygen ==
  /\ probe.fn = "arguments" /\ probe.of = "calculate_oxygen_partial_pressure"
  /\ probe' = [fn |-> "calculate_oxygen_partial_pressure",
               h |-> probe.h,
               pressure |-> PressureAt(probe.h),
               oxygen_pp |-> calculate_oxygen_partial_pressure(PressureAt(probe.h))]
  /\ UNCHANGED <<now, advances, samples, sim, current_page, chat, appended>>

NextPhysics ==
  \/ EvalBodyTemperature
  \/ EvalBloodOxygen
  \/ EvalPressure
  \/ EvalOxygen

SpecPhysics == InitPhysics /\ [][NextPhysics]_vars

(***************************************************************************)
(* Properties                                                              *)
(***************************************************************************)

\* C1: once a cause of death is stored, no step other than the reset changes
\* the stored height, the stored cause or the stored time of death.
C1_DeathLatch ==
  [][death_reason # None =>
       \/ UNCHANGED <<current_height, death_reason, death_time>>
       \/ Reset]_vars

\* a chat page shown after death, the clock having moved on since the death
C1_Witness ==
  /\ death_reason # None
  /\ current_page \in Personas
  /\ now - real_start_time > death_time

\* C2: whenever the asphyxiation condition and the hypothermia condition both
\* hold of the inputs, the verdict is death with Asphyxiation as its cause.
C2_AsphyxiationPriority ==
  (/\ probe.fn = "check_death_conditions"
   /\ probe.oxygen_pp < 100000 \/ probe.blood_oxygen < 70000
   /\ probe.body_temp < 28000)
  => /\ probe.verdict.is_dead
     /\ probe.verdict.primary_reason = "Asphyxiation"

\* oxygen_pp = 0.09, blood_oxygen = 60, body_temp = 20 has been evaluated
C2_Witness ==
  /\ probe.fn = "check_death_conditions"
  /\ probe.oxygen_pp = 90000 /\ probe.blood_oxygen = 60000 /\ probe.body_temp = 20000
  /\ probe.verdict.primary_reason = "Asphyxiation"

C4_HistoryBound == Len(history) <= 1000

\* the history is full and more than 1000 records have been appended
C4_Witness == Len(history) = 1000 /\ Len(appended) > 1000

\* C5: the history is the last min(n, 1000) of the n records appended since the
\* last reset, in the order of their appending.
C5_Fifo ==
  LET n == Len(appended)
      k == IF n < 1000 THEN n ELSE 1000
  IN /\ Len(history) = k
     /\ \A i \in 1..k : history[i] = appended[n - k + i]

\* after the 1001st append the first record is gone and the newest is last
C5_Witness ==
  /\ Len(appended) = 1001
  /\ \A i \in 1..Len(history) : history[i] # appended[1]
  /\ history[Len(history)] = appended[1001]

\* C6: the time field of the history records never decreases from one record
\* to the next.
C6_HistoryOrdered ==
  \A i \in 1..(Len(history) - 1) : history[i].time <= history[i + 1].time

\* C7: a step that sets a new start time or turns the simulation on begins in
\* a state that is not running and has no cause of death stored.
C7_StartGuard ==
  [][(\/ start_time' # start_time /\ start_time' # NoneTime
      \/ real_start_time' # real_start_time /\ real_start_time' # NoneTime
      \/ simulation_running' /\ ~simulation_running)
     => (~simulation_running /\ death_reason = None)]_vars

\* death is stored and the clock has moved on: the start button stays disabled
C7_Witness ==
  /\ death_reason # None
  /\ ~simulation_running
  /\ start_time # NoneTime
  /\ now - real_start_time > death_time
  /\ current_page = "simulator"

\* the state the reset leads to
ResetState ==
  /\ simulation_running = FALSE
  /\ current_height = 0
  /\ start_time = NoneTime
  /\ real_start_time = NoneTime
  /\ history = <<>>
  /\ death_reason = None
  /\ death_time = NoneTime
  /\ \A p \in Personas : conversation[p] = <<>> /\ auto_messages_shown[p] = <<>>

C9_SpeedOnlyFuture ==
  [][(/\ simulation_running /\ simulation_running'
      /\ start_time' = start_time
      /\ simulation_speed' # simulation_speed)
     => /\ current_height' >= current_height
        /\ (now' = now /\ current_height = (now - start_time) * simulation_speed * 3048)
             => current_height' = current_height]_vars

\* C10: the speed is always between 50 and 150.
C10_SpeedRange == 50 <= simulation_speed /\ simulation_speed <= 150

\* the speed has been changed and a tick has derived a height with it
C10_Witness ==
  /\ simulation_speed = 50
  /\ simulation_running
  /\ current_height = (now - start_time) * 50 * 3048
  /\ current_height > 0

\* C11: a page rendered w seconds after the start of a running simulation, the
\* speed s being left as it is, stores the height w x s x 0.3048 (100 s and
\* 30.48 m for w = 1 and s = 100), and the record the simulator page appends
\* holds the time w x s and that height.
C11_TickArithmetic ==
  [][(/\ Refresh \/ \E page \in Pages : SelectPage(page)
      /\ simulation_running /\ start_time > 0
      /\ simulation_speed' = simulation_speed)
     => LET w == now - start_time
            s == simulation_speed
        IN /\ current_height' = w * s * 3048
           /\ (w = 10 /\ s = 100) => current_height' = 3048000
           /\ history' # history =>
                /\ history'[Len(history')].time = w * s
                /\ history'[Len(history')].height = w * s * 3048]_vars

\* one second after the start at speed 100 the simulator page has stored
\* 30.48 m and appended the record of 100 s
C11_Witness ==
  /\ simulation_running
  /\ simulation_speed = 100
  /\ now - start_time = 10
  /\ current_height = 3048000
  /\ Len(history) = 1
  /\ history[1].time = 1000
  /\ history[1].height = 3048000

\* C12: the pause turns the simulation off and keeps the stored height and the
\* history; while the simulation is off, no step other than the reset changes
\* the stored height or the history, whatever page is rendered.
C12_PauseFreezes ==
  [][/\ Pause => (~simulation_running' /\ UNCHANGED <<current_height, history>>)
     /\ ~simulation_running =>
          (UNCHANGED <<current_height, history>> \/ Reset)]_vars

\* paused and alive on a chat page, one clock advance after the tick that
\* stored the height
C12_Witness ==
  /\ ~simulation_running
  /\ death_reason = None
  /\ current_page \in Personas
  /\ Len(conversation[current_page]) > 0
  /\ current_height > 0
  /\ Len(history) > 0
  /\ current_height = history[Len(history)].height
  /\ (now - start_time) * simulation_speed * 3048 > current_height

\* C13: after every page render, on the simulator page and on the chat pages,
\* if the values the render derives at the stored height (oxygen partial
\* pressure, blood oxygen, body temperature) satisfy a death condition, a cause
\* of death is stored.
C13_NoStaleVerdict ==
  [][(\/ Refresh
      \/ \E v \in SliderInputs : SetSpeed(v)
      \/ \E page \in Pages : SelectPage(page))
     => LET elapsed_time == ElapsedTime(simulation_speed')
            s == Sample(current_height', elapsed_time)
            verdict == check_death_conditions(current_height', s.env_temp, s.oxygen_pp,
                                              s.body_temp, s.blood_oxygen, elapsed_time)
        IN verdict.is_dead => death_reason' # None]_vars

\* C14: a run of a chat page, with or without a message of the user, leaves
\* simulation_running, start_time, simulation_speed, current_height,
\* death_reason, death_time and history as they are.
C14_ChatFrame ==
  [][(\/ Refresh /\ current_page \in Personas
      \/ \E page \in Personas : SelectPage(page)
      \/ \E outcome \in ApiOutcomes : SendMessage(outcome))
     => UNCHANGED <<simulation_running, start_time, simulation_speed, current_height,
                    death_reason, death_time, history>>]_vars

\* C15: when the call of the chat API fails, the conversation gains the user's
\* message and nothing else, and simulation_running, start_time,
\* simulation_speed, death_reason, death_time and history are as before.
C15_ApiFailure ==
  [][SendMessage("error")
     => LET before == conversation[current_page]
            after == conversation'[current_page]
            kept == IF Len(before) = 0 THEN 1 ELSE Len(before)
        IN /\ Len(after) = kept + 1
           /\ after[Len(after)] = UserMessage
           /\ \A i \in 2..Len(before) : after[i] = before[i]
           /\ UNCHANGED <<simulation_running, start_time, simulation_speed,
                          death_reason, death_time, history>>]_vars

\* a running simulation with a record in its history, on a chat page whose
\* conversation ends with the user's message: the call has failed
C15_Witness ==
  /\ current_page \in Personas
  /\ Len(conversation[current_page]) > 1
  /\ conversation[current_page][Len(conversation[current_page])] = UserMessage
  /\ simulation_running
  /\ Len(history) > 0
  /\ current_height > 0

\* C16: the body temperature is at most 37.0 and at least the floor of the
\* band of env_temp (32 above 10, 30 above 0, max(25, env_temp + 15) above -20,
\* max(20, env_temp + 12) otherwise); it is 37.0 when env_temp >= 37 and when
\* no time has elapsed.
C16_BodyTempBounds ==
  probe.fn = "calculate_body_temperature" =>
    LET e == probe.env_temp
        floor == IF e > 10000 THEN 32000
                 ELSE IF e > 0 THEN 30000
                 ELSE IF e > 0 - 20000
                      THEN (IF e + 15000 > 25000 THEN e + 15000 ELSE 25000)
                      ELSE (IF e + 12000 > 20000 THEN e + 12000 ELSE 20000)
    IN /\ probe.r1 <= 37000 /\ probe.r2 <= 37000
       /\ probe.r1 >= floor /\ probe.r2 >= floor
       /\ e >= 37000 => (probe.r1 = 37000 /\ probe.r2 = 37000)
       /\ probe.t1 = 0 => probe.r1 = 37000
       /\ probe.t2 = 0 => probe.r2 = 37000

\* at -56.5 degrees the body is at 37.0 at time 0 and at the floor of 20.0
\* after 200000 s
C16_Witness ==
  /\ probe.fn = "calculate_body_temperature"
  /\ probe.env_temp = 0 - 56500
  /\ probe.t1 = 0 /\ probe.r1 = 37000
  /\ probe.t2 = 2000000 /\ probe.r2 = 20000

\* C17: for env_temp below 37 and t1 <= t2 the body temperature after t2 is at
\* most the body temperature after t1.
C17_BodyTempNonIncreasing ==
  (/\ probe.fn = "calculate_body_temperature"
   /\ probe.env_temp < 37000
   /\ probe.t1 <= probe.t2)
  => probe.r2 <= probe.r1

\* two times at which the body has cooled, the later one cooler, above the floor
C17_Witness ==
  /\ probe.fn = "calculate_body_temperature"
  /\ probe.env_temp = 0 - 1
  /\ probe.t1 = 36000 /\ probe.t2 = 100000
  /\ probe.r1 < 37000
  /\ 25000 < probe.r2 /\ probe.r2 < probe.r1

\* C18: the blood oxygen saturation does not decrease when oxygen_pp grows, it
\* is 98.0 at 0.21 and 70.0 at 0.10, it does not jump at 0.10 and at 0.21, and
\* it is between 50 and 98.
C18_Saturation ==
  probe.fn = "calculate_blood_oxygen_saturation" =>
    /\ probe.o1 <= probe.o2 => probe.r1 <= probe.r2
    /\ probe.o1 = 210000 => probe.r1 = 98000
    /\ probe.o1 = 100000 => probe.r1 = 70000
    /\ (probe.o1 = 209999 /\ probe.o2 = 210000) => probe.r2 - probe.r1 <= 1
    /\ (probe.o1 = 210000 /\ probe.o2 = 210001) => probe.r2 - probe.r1 <= 1
    /\ (probe.o1 = 99999 /\ probe.o2 = 100000) => probe.r2 - probe.r1 <= 1
    /\ (probe.o1 = 100000 /\ probe.o2 = 100001) => probe.r2 - probe.r1 <= 1
    /\ 50000 <= probe.r1 /\ probe.r1 <= 98000
    /\ 50000 <= probe.r2 /\ probe.r2 <= 98000

\* the saturation at 0.05, on the lower piece, and at 0.15, on the middle piece
C18_Witness ==
  /\ probe.fn = "calculate_blood_oxygen_saturation"
  /\ probe.o1 = 50000 /\ probe.o2 = 150000
  /\ probe.r1 = 60000 /\ probe.r2 = 82727

\* C19: for every height >= 0 the pressure is above 0 and at most 1, it does
\* not grow with the height, and at 11000 m the troposphere formula and the
\* stratosphere formula give the same value.
C19_Pressure ==
  probe.fn = "calculate_pressure" =>
    /\ 0 < probe.p1 /\ probe.p1 <= 1000000
    /\ 0 < probe.p2 /\ probe.p2 <= 1000000
    /\ probe.h1 <= probe.h2 => probe.p2 <= probe.p1
    /\ probe.h1 = 1100000 => (probe.p1 = Troposphere(1100000)
                               /\ probe.p1 = Stratosphere(1100000))

\* C20: the oxygen partial pressure is 0.21 of the pressure; it is 0.21 at sea
\* level and between 0 and 0.21 at every height >= 0.
C20_OxygenPartialPressure ==
  probe.fn = "calculate_oxygen_partial_pressure" =>
    /\ probe.oxygen_pp = (probe.pressure * 21) \div 100
    /\ probe.h = 0 => probe.oxygen_pp = 210000
    /\ 0 <= probe.oxygen_pp /\ probe.oxygen_pp <= 210000

\* the oxygen partial pressure at 5000 m is below 0.21 and above 0.10
C20_Witness ==
  /\ probe.fn = "calculate_oxygen_partial_pressure"
  /\ probe.h = 500000
  /\ 100000 < probe.oxygen_pp /\ probe.oxygen_pp < 210000

\* C21: whenever a cause of death is stored the simulation is not running; the
\* step that stores the cause leaves the simulation not running; and the
\* simulation is turned on only by the start button, with no cause stored.
C21_DeathStopsClock ==
  /\ [](death_reason # None => ~simulation_running)
  /\ [][(death_reason = None /\ death_reason' # None) => ~simulation_running']_vars
  /\ [][(~simulation_running /\ simulation_running')
         => (Start /\ death_reason = None)]_vars

\* the simulator page has latched the death of a running simulation: the
\* time of death is stored and the simulation is off
C21_Witness ==
  /\ death_reason \in {"Asphyxiation", "Hypothermia"}
  /\ death_time # NoneTime
  /\ ~simulation_running
  /\ current_height > 0
  /\ current_height = (death_time * simulation_speed) * 3048

\* C22: a render of the simulator page that ticks a running simulation appends
\* the record of the tick to the history, also when it latches the death: the
\* last record is then the sample of the death tick.
C22_EveryTickRecorded ==
  [][(/\ Refresh \/ (\E v \in SliderInputs : SetSpeed(v))
             \/ (\E page \in Pages : SelectPage(page))
      /\ current_page' = "simulator"
      /\ simulation_running /\ start_time > 0 /\ death_reason = None)
     => LET elapsed_time == (now - start_time) * simulation_speed'
            s == Sample(current_height', elapsed_time)
        IN /\ Len(appended') = Len(appended) + 1
           /\ Len(history') > 0
           /\ history'[Len(history')] = s]_vars

\* C23: while a cause of death is stored, the last call of the death evaluator
\* was not made by a run that began with a cause stored.
C23_EvaluatorNotConsulted ==
  (death_reason # None /\ probe.fn = "check_death_conditions") => ~probe.latched

\* C24: in an uninterrupted run the cause of death that is latched is
\* Asphyxiation, at a height between 5 and 6 km.
C24_AsphyxiationFirst ==
  death_reason # None =>
    /\ death_reason = "Asphyxiation"
    /\ Metres(5000) <= current_height /\ current_height <= Metres(6000)

\* C28: in an uninterrupted run death is eventually latched and the simulation
\* is off from then on, and once a cause is stored the history does not grow.
C28_EventualDeath ==
  /\ <>[](death_reason # None /\ ~simulation_running)
  /\ [][death_reason # None => history' = history]_vars

\* death has been latched in an uninterrupted run with records in the history
C28_Witness ==
  /\ death_reason # None
  /\ ~simulation_running
  /\ Len(history) > 1
  /\ history[Len(history)].time < (now - start_time) * simulation_speed
  /\ current_height = (now - start_time) * simulation_speed * 3048

\* C25: when a run of a persona's chat page adds no automatic message (the
\* reruns have settled), the conversation of that persona holds the message of
\* every trigger whose range starts at or below the stored height: 0km always,
\* 2km from 1800 m on, 4.5km from 4300 m on.
C25_AutoMessagesNeverMissed ==
  [][(/\ Refresh \/ (\E v \in SliderInputs : SetSpeed(v))
             \/ (\E page \in Pages : SelectPage(page))
      /\ current_page' \in Personas
      /\ auto_messages_shown' = auto_messages_shown)
     => LET conv == conversation'[current_page']
        IN /\ InSeq(AutoMessage("0km"), conv)
           /\ current_height' >= Metres(1800) => InSeq(AutoMessage("2km"), conv)
           /\ current_height' >= Metres(4300) => InSeq(AutoMessage("4.5km"), conv)]_vars

\* C26: a step that stores a cause of death starts in a state where the
\* simulation is running: a paused simulation does not become dead, whatever
\* page is rendered.
C26_LatchOnlyWhileRunning ==
  [][(death_reason = None /\ death_reason' # None) => simulation_running]_vars

\* C27: except by a reset, the stored height never decreases, across start,
\* pause, speed changes and renders of any page.
C27_HeightNonDecreasing ==
  [][~Reset => current_height' >= current_height]_vars

\* C29 as stated: the blood oxygen computed from oxygen_pp is below 70 exactly
\* when oxygen_pp is below 0.10, and the causes the evaluator finds are
\* Asphyxiation exactly when oxygen_pp < 0.10 and Hypothermia exactly when
\* body_temp < 28.
C29_DisjunctsAgree ==
  probe.fn = "calculate_blood_oxygen_saturation" =>
    /\ (probe.r1 < 70000) <=> (probe.o1 < 100000)
    /\ (probe.r2 < 70000) <=> (probe.o2 < 100000)
    /\ \A body_temp \in {27999, 28000} :
         check_death_conditions(0, 0, probe.o1, body_temp, probe.r1, 0).details
           = (IF probe.o1 < 100000 THEN {"Asphyxiation"} ELSE {})
             \cup (IF body_temp < 28000 THEN {"Hypothermia"} ELSE {})

\* C29, amended: a blood oxygen below 70 computed from oxygen_pp implies
\* oxygen_pp < 0.10 (not the converse: just below 0.10 the saturation rounds to
\* 70.0), so the asphyxiation condition holds exactly when oxygen_pp < 0.10 and
\* the causes the evaluator finds are decided by oxygen_pp < 0.10 and
\* body_temp < 28 alone.
C29_OxygenDecides ==
  probe.fn = "calculate_blood_oxygen_saturation" =>
    /\ (probe.r1 < 70000) => (probe.o1 < 100000)
    /\ (probe.r2 < 70000) => (probe.o2 < 100000)
    /\ AsphyxiationCondition(probe.o1, probe.r1) <=> (probe.o1 < 100000)
    /\ AsphyxiationCondition(probe.o2, probe.r2) <=> (probe.o2 < 100000)
    /\ \A body_temp \in {27999, 28000} :
         check_death_conditions(0, 0, probe.o1, body_temp, probe.r1, 0).details
           = (IF probe.o1 < 100000 THEN {"Asphyxiation"} ELSE {})
             \cup (IF body_temp < 28000 THEN {"Hypothermia"} ELSE {})

\* oxygen_pp just below 0.10 with a saturation of 70.0, and oxygen_pp = 0.05
\* with a saturation of 60.0
C29_Witness ==
  /\ probe.fn = "calculate_blood_oxygen_saturation"
  /\ probe.o1 = 99999 /\ probe.r1 = 70000
  /\ probe.o2 = 50000 /\ probe.r2 = 60000

\* C30: for every env_temp above 0 and every elapsed time the body temperature
\* is at least 30.0, so the hypothermia condition does not hold and the
\* evaluator does not report Hypothermia; the air is above 0 below about
\* 2308 m, and a tick at such a height does not find Hypothermia however long
\* the exposure.
C30_HypothermiaNeedsFreezingAir ==
  probe.fn = "calculate_body_temperature" =>
    /\ probe.env_temp > 0 =>
         /\ probe.r1 >= 30000 /\ probe.r2 >= 30000
         /\ ~HypothermiaCondition(probe.r1) /\ ~HypothermiaCondition(probe.r2)
         /\ "Hypothermia" \notin
              check_death_conditions(0, probe.env_temp, 210000, probe.r2,
                                     98000, probe.t2).details
    /\ \A h \in {0, Metres(1000), Metres(2307)} :
         LET s == Sample(h, probe.t2)
         IN /\ s.env_temp > 0
            /\ s.body_temp >= 30000
            /\ "Hypothermia" \notin
                 check_death_conditions(h, s.env_temp, s.oxygen_pp, s.body_temp,
                                        s.blood_oxygen, probe.t2).details
    /\ calculate_temperature(Metres(2308)) <= 0

\* air just above 0 degrees: after 200000 s the body is at the floor of 30.0
C30_Witness ==
  /\ probe.fn = "calculate_body_temperature"
  /\ probe.env_temp = 1
  /\ probe.t1 = 36000 /\ probe.r1 > 30000
  /\ probe.t2 = 2000000 /\ probe.r2 = 30000

====
